---- MODULE Spec2Model ----
(***************************************************************************)
(* Model of experiments/question_answering.py: the experiment driver that  *)
(* parses the command line, derives the experiment identifier, loads the   *)
(* collaborators, selects the templates and the runner class, and runs.    *)
(*                                                                         *)
(* One action per statement group of the __main__ block; `pc` is the       *)
(* position of the single-threaded script.  A collaborator call that       *)
(* raises ends the process (pc = "failed"); nothing catches it.  The file  *)
(* system (`fs`) outlives a process, so the script can be started again.   *)
(***************************************************************************)
EXTENDS Naturals, Sequences, FiniteSets

\* ------------------------------------------------------------------ bounds
\* Number of times the script is started on the same file system.
MaxRuns == 2

\* ----------------------------------------------------------- python values
None == [cls |-> "NoneType"]
Str(s) == [cls |-> "str", v |-> s]

\* isinstance(obj, cls) for the classes of the model (no subclassing).
IsInstance(obj, cls) == obj.cls = cls

\* str.replace(old, new) on a string held as a sequence of characters.
Replace(s, old, new) == [i \in DOMAIN s |-> IF s[i] = old THEN new ELSE s[i]]

\* ------------------------------------------------------ command-line values
\* Mutant: the parser accepts a value outside the six choices.
DatasetTypeChoices_Unchecked ==
    {"qa", "conv_qa", "qa_unanswerable", "conv_qa_unanswerable",
     "starcoder_chat", "faithdial", "summarization"}

\* choices= of --dataset_type.
DatasetTypeChoices ==
    {"qa", "conv_qa", "qa_unanswerable", "conv_qa_unanswerable",
     "starcoder_chat", "faithdial"}

\* Values the user may type for --dataset_type: the choices and one other.
DatasetTypeInputs == DatasetTypeChoices \cup {"summarization"}

\* Values typed for --model_name, as character sequences ("opt", "fb/opt").
ModelNames == {<<"o", "p", "t">>, <<"f", "b", "/", "o", "p", "t">>}
DatasetNames == {"hotpot_qa", "nq"}
PersistentDirs == {"/p"}
OptIndexNames == {None, Str("dense")}
OptIndexPaths == {None, Str("/idx")}
OptCachedFps == {None, Str("/cache.jsonl")}
HostedChoices == {"true", "false"}

\* The command lines of the model; every option not varied keeps its default.
Argvs ==
    [persistent_dir : PersistentDirs,
     model_name : ModelNames,
     dataset_name : DatasetNames,
     dataset_type : DatasetTypeInputs,
     dataset_split : {"validation"},
     document_collection_name : {"dpr_wiki_collection"},
     retriever_name : {"all-MiniLM-L6-v2"},
     top_p : {"0.95"},
     temperature : {"1.0"},
     seed : {"0"},
     batch_size : {"1"},
     logging_interval : {"256"},
     index_name : OptIndexNames,
     index_path : OptIndexPaths,
     use_hosted_retriever : HostedChoices,
     hosted_retriever_url : {"http://10.140.16.91:42010/search"},
     retriever_cached_results_fp : OptCachedFps]

VARIABLES
    argv,                \* the command line of the running process
    args,                \* parser.parse_args() result, None before/without it
    pc,                  \* position of the script
    events,              \* log records and collaborator calls of this process
    experiment_id,
    dataset,
    output_file,
    document_collection,
    model,
    index,
    retriever,
    prompt_template,
    history_template,
    runner_cls,
    runner,
    failedAt,            \* the statement whose exception ended the process
    fs,                  \* directories that exist
    fs0,                 \* directories that existed when the process started
    run,                 \* number of processes started so far
    prev                 \* inputs and outputs of the previous process

procVars ==
    <<args, events, experiment_id, dataset, output_file, document_collection,
      model, index, retriever, prompt_template, history_template, runner_cls,
      runner, failedAt>>
vars == <<argv, pc, procVars, fs, fs0, run, prev>>

Ev(name, arg) == [name |-> name, arg |-> arg]
Names(evs) == [i \in DOMAIN evs |-> evs[i].name]
Has(evs, name) == \E i \in DOMAIN evs : evs[i].name = name
Count(evs, name) == Cardinality({i \in DOMAIN evs : evs[i].name = name})
First(evs, name) == CHOOSE i \in DOMAIN evs :
    evs[i].name = name /\ \A j \in DOMAIN evs : evs[j].name = name => i <= j

\* ------------------------------------------------------------ collaborators
\* rag_eval.experiment_utils.generate_experiment_id: a pure function of its
\* eight keyword arguments whose result names one file.
generate_experiment_id(name, split, collection_name, model_name, retriever_name, top_p, temperature, seed) ==
    [name |-> name, split |-> split, collection_name |-> collection_name,
     model_name |-> model_name, retriever_name |-> retriever_name,
     top_p |-> top_p, temperature |-> temperature, seed |-> seed]

\* What load_index can hand back: an index, or nothing.
LoadIndexResults == {[cls |-> "Index"], None}
\* What load_retriever can hand back.
LoadRetrieverResults == {[cls |-> "RetrieverFromFile"], [cls |-> "Retriever"]}

\* ----------------------------------------------------------- file system
Prefixes(path) == {SubSeq(path, 1, n) : n \in 1..Len(path)}
Dirname(path) == SubSeq(path, 1, Len(path) - 1)

\* os.makedirs(path, exist_ok=...): the directories after the call, or the
\* exception it raises.
makedirs(dirs, path, exist_ok) ==
    IF path \in dirs
    THEN [ok |-> exist_ok, fs |-> dirs]
    ELSE [ok |-> TRUE, fs |-> dirs \cup Prefixes(path)]

\* f"{args.persistent_dir}/results/{args.dataset_name}/response"
ResponseDir(a) == <<a.persistent_dir, "results", a.dataset_name, "response">>

\* Mutant: the output path is built from dataset_type instead of dataset_name.
OutputFilePath_ByDatasetType(a, id) ==
    <<a.persistent_dir, "results", a.dataset_type, "response", [stem |-> id, ext |-> ".jsonl"]>>

\* f"{args.persistent_dir}/results/{args.dataset_name}/response/{experiment_id}.jsonl"
OutputFilePath(a, id) ==
    <<a.persistent_dir, "results", a.dataset_name, "response", [stem |-> id, ext |-> ".jsonl"]>>

\* --------------------------------------------------------------- templates
PromptTemplate(variables, template) ==
    [cls |-> "PromptTemplate", variables |-> variables, template |-> template]
PassageTemplate(variables, template) ==
    [cls |-> "PassageTemplate", variables |-> variables, template |-> template]
HistoryTemplate == [cls |-> "HistoryTemplate"]
StarChatTemplate == [cls |-> "StarChatTemplate"]

QaText ==
    "Please answer the following question given the following passages:\n{retrieved_passages}\nQuestion: {query}\nAnswer: "
QaUnanswerableText ==
    "Please answer the following question given the following passage. If the answer is not in the passage or cannot be inferred from the passage, respond as \"I don't know\".\n{retrieved_passages}\nQuestion: {query}\nAnswer: "
ConvQaText ==
    "Please answer the following question given the following passages and the conversation history:\n\n{retrieved_passages}\n\n{history}\nUser: {query}\nAgent: "
ConvQaUnanswerableText ==
    "Please answer the following question given the following passage and the conversation history. If the answer is not in the passage or cannot be infered from the passage, respond as \"I don't know\".\n\n{retrieved_passages}\n\n{history}\nUser: {query}\nAgent: "
PassageText == "- Title: {title}\n{text}\n\n"

\* Mutant: the conv_qa_unanswerable branch forgets the history template.
SelectTemplates_NoConvHistory(dataset_type) ==
    IF dataset_type \in {"qa", "qa_unanswerable"} THEN
        [ok |-> TRUE, history |-> None,
         prompt |-> PromptTemplate(<<"query", "retrieved_passages">>, QaText)]
    ELSE IF dataset_type = "conv_qa" THEN
        [ok |-> TRUE, history |-> HistoryTemplate,
         prompt |-> PromptTemplate(<<"query", "retrieved_passages", "history">>, ConvQaText)]
    ELSE IF dataset_type = "conv_qa_unanswerable" THEN
        [ok |-> TRUE, history |-> None,
         prompt |-> PromptTemplate(<<"query", "retrieved_passages", "history">>, ConvQaUnanswerableText)]
    ELSE IF dataset_type = "starcoder_chat" THEN
        [ok |-> TRUE, history |-> None, prompt |-> StarChatTemplate]
    ELSE IF dataset_type = "faithdial" THEN
        [ok |-> TRUE, history |-> HistoryTemplate, prompt |-> None]
    ELSE
        [ok |-> FALSE, history |-> None, prompt |-> None]

\* The if/elif chain on args.dataset_type that builds the templates; `ok` is
\* FALSE where the chain ends in `assert False`.
SelectTemplates(dataset_type) ==
    IF dataset_type = "qa" THEN
        [ok |-> TRUE, history |-> None,
         prompt |-> PromptTemplate(<<"query", "retrieved_passages">>, QaText)]
    ELSE IF dataset_type = "qa_unanswerable" THEN
        [ok |-> TRUE, history |-> None,
         prompt |-> PromptTemplate(<<"query", "retrieved_passages">>, QaUnanswerableText)]
    ELSE IF dataset_type = "conv_qa" THEN
        [ok |-> TRUE, history |-> HistoryTemplate,
         prompt |-> PromptTemplate(<<"query", "retrieved_passages", "history">>, ConvQaText)]
    ELSE IF dataset_type = "conv_qa_unanswerable" THEN
        [ok |-> TRUE, history |-> HistoryTemplate,
         prompt |-> PromptTemplate(<<"query", "retrieved_passages", "history">>, ConvQaUnanswerableText)]
    ELSE IF dataset_type = "starcoder_chat" THEN
        [ok |-> TRUE, history |-> None, prompt |-> StarChatTemplate]
    ELSE IF dataset_type = "faithdial" THEN
        [ok |-> TRUE, history |-> HistoryTemplate, prompt |-> None]
    ELSE
        [ok |-> FALSE, history |-> None, prompt |-> None]

\* Mutant: the runner chain has no faithdial branch.
SelectRunnerCls_NoFaithdial(dataset_type) ==
    IF dataset_type \in {"qa", "qa_unanswerable"} THEN Str("ResponseRunner")
    ELSE IF dataset_type \in {"conv_qa", "conv_qa_unanswerable"} THEN Str("ConvQAResponseRunner")
    ELSE IF dataset_type = "starcoder_chat" THEN Str("StarChatResponseRunner")
    ELSE None

\* The if/elif chain on args.dataset_type that picks runner_cls; None
\* where the chain ends in `assert False`.
SelectRunnerCls(dataset_type) ==
    IF dataset_type \in {"qa", "qa_unanswerable"} THEN Str("ResponseRunner")
    ELSE IF dataset_type \in {"conv_qa", "conv_qa_unanswerable"} THEN Str("ConvQAResponseRunner")
    ELSE IF dataset_type = "starcoder_chat" THEN Str("StarChatResponseRunner")
    ELSE IF dataset_type = "faithdial" THEN Str("FaithDialResponseRunner")
    ELSE None

\* ------------------------------------------------------ the driver's tests
\* Mutant: the index is loaded when index_path is given.
ShouldLoadIndex_ByIndexPath(a) == a.index_path # None

\* `if args.index_name is not None`
ShouldLoadIndex(a) == a.index_name # None

\* Mutant: the retriever test reads index_name instead of the loaded index.
ShouldLoadRetriever_ByIndexName(idx, a) ==
    a.index_name # None \/ a.retriever_cached_results_fp # None

\* `if index is not None or args.retriever_cached_results_fp is not None`
ShouldLoadRetriever(idx, a) == idx # None \/ a.retriever_cached_results_fp # None

\* Mutant: the flag is set for any retriever.
UseCachedRetrievedResults_AnyRetriever(r) == r # None

\* `use_cached_retrieved_results=isinstance(retriever, RetrieverFromFile)`
UseCachedRetrievedResults(r) == IsInstance(r, "RetrieverFromFile")

\* Mutant: os.makedirs is called without exist_ok.
ExistOk_False == FALSE

\* exist_ok of the os.makedirs call.
ExistOk == TRUE

\* model_name=args.model_name.replace("/", "_")
IdModelName(a) == Replace(a.model_name, "/", "_")

\* The inputs the experiment identifier and the output path are built from.
Key(a) ==
    [persistent_dir |-> a.persistent_dir, dataset_name |-> a.dataset_name,
     dataset_split |-> a.dataset_split,
     document_collection_name |-> a.document_collection_name,
     model_name |-> a.model_name, retriever_name |-> a.retriever_name,
     top_p |-> a.top_p, temperature |-> a.temperature, seed |-> a.seed]

\* passage_template = PassageTemplate(variables=["title", "text"], template=passage_str)
passage_template == PassageTemplate(<<"title", "text">>, PassageText)

\* ------------------------------------------------------------------- state
Unset == [cls |-> "unset"]

\* Directories that exist before the first process starts: none.
InitialFs == {{}}

Init ==
    /\ argv \in Argvs
    /\ args = None
    /\ pc = "parse_args"
    /\ events = <<>>
    /\ experiment_id = Unset
    /\ dataset = Unset
    /\ output_file = Unset
    /\ document_collection = Unset
    /\ model = Unset
    /\ index = Unset
    /\ retriever = Unset
    /\ prompt_template = Unset
    /\ history_template = Unset
    /\ runner_cls = Unset
    /\ runner = Unset
    /\ failedAt = "nowhere"
    /\ fs \in InitialFs
    /\ fs0 = fs
    /\ run = 1
    /\ prev = None

\* An exception leaves the statement at position `at`: nothing catches it.
Raise(at) == pc' = "failed" /\ failedAt' = at

\* args = parser.parse_args(): a --dataset_type outside choices is a usage
\* error (exit status 2) raised by the parser.
ParseArgs ==
    /\ pc = "parse_args"
    /\ IF argv.dataset_type \in DatasetTypeChoices
       THEN args' = argv /\ pc' = "log_args"
       ELSE args' = args /\ pc' = "usage_error"
    /\ UNCHANGED <<argv, events, experiment_id, dataset, output_file,
                   document_collection, model, index, retriever, prompt_template,
                   history_template, runner_cls, runner, failedAt, fs, fs0, run, prev>>

\* logging.basicConfig ... log_commandline_args(args, logger.info)
LogArgs ==
    /\ pc = "log_args"
    /\ events' = Append(events, Ev("log_args", None))
    /\ pc' = "generate_id"
    /\ UNCHANGED <<argv, args, experiment_id, dataset, output_file,
                   document_collection, model, index, retriever, prompt_template,
                   history_template, runner_cls, runner, failedAt, fs, fs0, run, prev>>

\* Mutant: the experiment ID is not logged.
GenerateId_NoLog ==
    /\ pc = "generate_id"
    /\ experiment_id' = generate_experiment_id(args.dataset_name, args.dataset_split, args.document_collection_name, IdModelName(args), args.retriever_name, args.top_p, args.temperature, args.seed)
    /\ pc' = "load_dataset"
    /\ UNCHANGED <<argv, args, events, dataset, output_file,
                   document_collection, model, index, retriever, prompt_template,
                   history_template, runner_cls, runner, failedAt, fs, fs0, run, prev>>

\* experiment_id = generate_experiment_id(...); logger.info(Experiment ID)
GenerateId ==
    /\ pc = "generate_id"
    /\ experiment_id' = generate_experiment_id(args.dataset_name, args.dataset_split, args.document_collection_name, IdModelName(args), args.retriever_name, args.top_p, args.temperature, args.seed)
    /\ events' = Append(events, Ev("log_experiment_id", None))
    /\ pc' = "load_dataset"
    /\ UNCHANGED <<argv, args, dataset, output_file,
                   document_collection, model, index, retriever, prompt_template,
                   history_template, runner_cls, runner, failedAt, fs, fs0, run, prev>>

\* dataset = load_dataset(...)
LoadDataset ==
    /\ pc = "load_dataset"
    /\ events' = Append(events, Ev("load_dataset", None))
    /\ \E raises \in BOOLEAN :
        IF raises
        THEN Raise("load_dataset") /\ dataset' = dataset
        ELSE /\ dataset' = [cls |-> "Dataset"]
             /\ pc' = "output_file"
             /\ failedAt' = failedAt
    /\ UNCHANGED <<argv, args, experiment_id, output_file,
                   document_collection, model, index, retriever, prompt_template,
                   history_template, runner_cls, runner, fs, fs0, run, prev>>

\* output_file = f"..."; logger.info(Output response file); logger.info(Length)
OutputFile ==
    /\ pc = "output_file"
    /\ output_file' = OutputFilePath(args, experiment_id)
    /\ events' = events \o <<Ev("log_output_file", None), Ev("log_dataset_length", None)>>
    /\ pc' = "load_collection"
    /\ UNCHANGED <<argv, args, experiment_id, dataset,
                   document_collection, model, index, retriever, prompt_template,
                   history_template, runner_cls, runner, failedAt, fs, fs0, run, prev>>

\* document_collection = load_collection(...)
LoadCollection ==
    /\ pc = "load_collection"
    /\ events' = Append(events, Ev("load_collection", None))
    /\ \E raises \in BOOLEAN :
        IF raises
        THEN Raise("load_collection") /\ document_collection' = document_collection
        ELSE /\ document_collection' = [cls |-> "Collection"]
             /\ pc' = "load_model"
             /\ failedAt' = failedAt
    /\ UNCHANGED <<argv, args, experiment_id, dataset, output_file,
                   model, index, retriever, prompt_template,
                   history_template, runner_cls, runner, fs, fs0, run, prev>>

\* Mutant: a failed load_model is tried again.
LoadModel_Retry ==
    /\ pc = "load_model"
    /\ events' = Append(events, Ev("load_model", None))
    /\ \E raises \in BOOLEAN :
        IF raises
        THEN pc' = pc /\ model' = model
        ELSE model' = [cls |-> "Model"] /\ pc' = "load_index"
    /\ UNCHANGED <<argv, args, experiment_id, dataset, output_file,
                   document_collection, index, retriever, prompt_template,
                   history_template, runner_cls, runner, failedAt, fs, fs0, run, prev>>

\* model = load_model(...)
LoadModel ==
    /\ pc = "load_model"
    /\ events' = Append(events, Ev("load_model", None))
    /\ \E raises \in BOOLEAN :
        IF raises
        THEN Raise("load_model") /\ model' = model
        ELSE /\ model' = [cls |-> "Model"]
             /\ pc' = "load_index"
             /\ failedAt' = failedAt
    /\ UNCHANGED <<argv, args, experiment_id, dataset, output_file,
                   document_collection, index, retriever, prompt_template,
                   history_template, runner_cls, runner, fs, fs0, run, prev>>

\* index = None; if args.index_name is not None: index = load_index(...)
LoadIndex ==
    /\ pc = "load_index"
    /\ IF ShouldLoadIndex(args)
       THEN /\ events' = Append(events, Ev("load_index", args.index_name))
            /\ \E raises \in BOOLEAN, result \in LoadIndexResults :
                IF raises
                THEN Raise("load_index") /\ index' = None
                ELSE index' = result /\ pc' = "load_retriever" /\ failedAt' = failedAt
       ELSE /\ events' = events
            /\ index' = None
            /\ pc' = "load_retriever"
            /\ failedAt' = failedAt
    /\ UNCHANGED <<argv, args, experiment_id, dataset, output_file,
                   document_collection, model, retriever, prompt_template,
                   history_template, runner_cls, runner, fs, fs0, run, prev>>

\* retriever = None; if index is not None or ...: retriever = load_retriever(...)
LoadRetriever ==
    /\ pc = "load_retriever"
    /\ IF ShouldLoadRetriever(index, args)
       THEN /\ events' = Append(events, Ev("load_retriever", index))
            /\ \E raises \in BOOLEAN, result \in LoadRetrieverResults :
                IF raises
                THEN Raise("load_retriever") /\ retriever' = None
                ELSE retriever' = result /\ pc' = "select_templates" /\ failedAt' = failedAt
       ELSE /\ events' = events
            /\ retriever' = None
            /\ pc' = "select_templates"
            /\ failedAt' = failedAt
    /\ UNCHANGED <<argv, args, experiment_id, dataset, output_file,
                   document_collection, model, index, prompt_template,
                   history_template, runner_cls, runner, fs, fs0, run, prev>>

\* history_template = None; prompt_template = None; if/elif on dataset_type,
\* ending in `assert False`
BuildTemplates ==
    /\ pc = "select_templates"
    /\ LET t == SelectTemplates(args.dataset_type) IN
        /\ prompt_template' = t.prompt
        /\ history_template' = t.history
        /\ IF t.ok
           THEN pc' = "makedirs" /\ failedAt' = failedAt
           ELSE Raise("assert_templates")
    /\ UNCHANGED <<argv, args, events, experiment_id, dataset, output_file,
                   document_collection, model, index, retriever,
                   runner_cls, runner, fs, fs0, run, prev>>

\* os.makedirs(f"{args.persistent_dir}/results/{args.dataset_name}/response", exist_ok=True)
MakeDirs ==
    /\ pc = "makedirs"
    /\ events' = Append(events, Ev("makedirs", None))
    /\ LET r == makedirs(fs, ResponseDir(args), ExistOk) IN
        /\ fs' = r.fs
        /\ IF r.ok
           THEN pc' = "select_runner" /\ failedAt' = failedAt
           ELSE Raise("makedirs")
    /\ UNCHANGED <<argv, args, experiment_id, dataset, output_file,
                   document_collection, model, index, retriever, prompt_template,
                   history_template, runner_cls, runner, fs0, run, prev>>

\* if/elif on dataset_type picking runner_cls, ending in `assert False`
SelectRunner ==
    /\ pc = "select_runner"
    /\ LET c == SelectRunnerCls(args.dataset_type) IN
        IF c # None
        THEN runner_cls' = c /\ pc' = "construct_runner" /\ failedAt' = failedAt
        ELSE runner_cls' = runner_cls /\ Raise("assert_runner_cls")
    /\ UNCHANGED <<argv, args, events, experiment_id, dataset, output_file,
                   document_collection, model, index, retriever, prompt_template,
                   history_template, runner, fs, fs0, run, prev>>

\* The keyword arguments of runner_cls(...).
RunnerKwargs ==
    [model |-> model,
     dataset |-> dataset,
     retriever |-> retriever,
     document_collection |-> document_collection,
     prompt_template |-> prompt_template,
     passage_template |-> passage_template,
     history_template |-> history_template,
     output_path |-> output_file,
     batch_size |-> args.batch_size,
     logging_interval |-> args.logging_interval,
     use_hosted_retriever |-> (args.use_hosted_retriever = "true"),
     hosted_retriever_url |-> args.hosted_retriever_url,
     use_cached_retrieved_results |-> UseCachedRetrievedResults(retriever)]

\* runner = runner_cls(...)
ConstructRunner ==
    /\ pc = "construct_runner"
    /\ events' = Append(events, Ev("runner_init", runner_cls))
    /\ \E raises \in BOOLEAN :
        IF raises
        THEN Raise("runner_init") /\ runner' = runner
        ELSE /\ runner' = [cls |-> runner_cls.v, kwargs |-> RunnerKwargs]
             /\ pc' = "invoke_runner"
             /\ failedAt' = failedAt
    /\ UNCHANGED <<argv, args, experiment_id, dataset, output_file,
                   document_collection, model, index, retriever, prompt_template,
                   history_template, runner_cls, fs, fs0, run, prev>>

\* runner()
InvokeRunner ==
    /\ pc = "invoke_runner"
    /\ events' = Append(events, Ev("runner_call", None))
    /\ \E raises \in BOOLEAN :
        IF raises
        THEN Raise("runner_call")
        ELSE pc' = "done" /\ failedAt' = failedAt
    /\ UNCHANGED <<argv, args, experiment_id, dataset, output_file,
                   document_collection, model, index, retriever, prompt_template,
                   history_template, runner_cls, runner, fs, fs0, run, prev>>

Ended == pc \in {"done", "failed", "usage_error"}

\* What a process that computed its output path leaves for comparison.
RunRecord ==
    [key |-> Key(args), id |-> experiment_id, path |-> output_file,
     use_hosted_retriever |-> args.use_hosted_retriever]

\* The process ends: its memory is gone, the file system stays.
Exit ==
    /\ Ended
    /\ prev' = IF output_file # Unset THEN RunRecord ELSE prev
    /\ pc' = "exited"
    /\ argv' = None
    /\ args' = None
    /\ events' = <<>>
    /\ experiment_id' = Unset
    /\ dataset' = Unset
    /\ output_file' = Unset
    /\ document_collection' = Unset
    /\ model' = Unset
    /\ index' = Unset
    /\ retriever' = Unset
    /\ prompt_template' = Unset
    /\ history_template' = Unset
    /\ runner_cls' = Unset
    /\ runner' = Unset
    /\ failedAt' = "nowhere"
    /\ UNCHANGED <<fs, fs0, run>>

\* The script is started again, with any command line, on the file system
\* the earlier processes left.
Restart ==
    /\ pc = "exited"
    /\ run < MaxRuns
    /\ run' = run + 1
    /\ argv' \in Argvs
    /\ pc' = "parse_args"
    /\ fs0' = fs
    /\ UNCHANGED <<args, events, experiment_id, dataset, output_file,
                   document_collection, model, index, retriever, prompt_template,
                   history_template, runner_cls, runner, failedAt, fs, prev>>

Next ==
    \/ ParseArgs
    \/ LogArgs
    \/ GenerateId
    \/ LoadDataset
    \/ OutputFile
    \/ LoadCollection
    \/ LoadModel
    \/ LoadIndex
    \/ LoadRetriever
    \/ BuildTemplates
    \/ MakeDirs
    \/ SelectRunner
    \/ ConstructRunner
    \/ InvokeRunner
    \/ Exit
    \/ Restart

Spec == Init /\ [][Next]_vars

\* ================================================================== claims
NoOpt(a) == a.index_name = None /\ a.retriever_cached_results_fp = None
RetrieverStepDone == retriever # Unset
IndexStepDone == index # Unset
Constructed == runner # Unset

\* C1 as stated: once the retriever step has run, load_retriever was called
\* if and only if index_name is set or retriever_cached_results_fp is set
\* (whatever load_index returned), and with neither set the retriever, also
\* the one handed to the runner, is None.
C1_AsStated ==
    RetrieverStepDone =>
        /\ Has(events, "load_retriever")
             <=> (args.index_name # None \/ args.retriever_cached_results_fp # None)
        /\ NoOpt(args) => retriever = None

\* C1, amended: once the retriever step has run, load_retriever was called
\* if and only if load_index returned an index (index is not None) or
\* retriever_cached_results_fp is set; without the call the retriever is
\* None, and with neither option set the runner is handed None.
C1_RetrieverLoadedIffIndexOrCache ==
    /\ RetrieverStepDone =>
        /\ Has(events, "load_retriever")
             <=> (index # None \/ args.retriever_cached_results_fp # None)
        /\ ~Has(events, "load_retriever") => retriever = None
    /\ (Constructed /\ NoOpt(args)) => runner.kwargs.retriever = None

\* C1 witness: index_name set, load_index returned no index, no cache file:
\* the run completes without load_retriever.
C1_Witness ==
    /\ pc = "done"
    /\ args.index_name # None
    /\ index = None
    /\ args.retriever_cached_results_fp = None
    /\ ~Has(events, "load_retriever")
    /\ runner.kwargs.retriever = None

\* C2: once the index step has run, load_index was called if and only if
\* index_name is set; without index_name the index is None (whatever
\* index_path and retriever_cached_results_fp are) and every load_retriever
\* call receives None as its index.
C2_IndexLoadedIffIndexName ==
    IndexStepDone =>
        /\ Has(events, "load_index") <=> args.index_name # None
        /\ args.index_name = None =>
            /\ index = None
            /\ \A i \in DOMAIN events :
                events[i].name = "load_retriever" => events[i].arg = None

\* C2 witness: no index_name, but index_path and the cache file are set, and
\* load_retriever was called with index None.
C2_Witness ==
    /\ IndexStepDone
    /\ args.index_name = None
    /\ args.index_path # None
    /\ args.retriever_cached_results_fp # None
    /\ \E i \in DOMAIN events :
        events[i].name = "load_retriever" /\ events[i].arg = None

\* C3: the use_cached_retrieved_results flag handed to the runner is TRUE
\* exactly when the retriever handed to it is a RetrieverFromFile; it is
\* FALSE for retriever None; it is decided by the retriever alone, so it
\* does not vary with use_hosted_retriever.
C3_CachedFlagIffFileRetriever ==
    Constructed =>
        /\ runner.kwargs.use_cached_retrieved_results
             <=> (runner.kwargs.retriever = [cls |-> "RetrieverFromFile"])
        /\ runner.kwargs.retriever = None
             => ~runner.kwargs.use_cached_retrieved_results

\* C3 witness: a runner built with a file-backed retriever and the flag set
\* while use_hosted_retriever is "false".
C3_Witness ==
    /\ Constructed
    /\ runner.kwargs.retriever = [cls |-> "RetrieverFromFile"]
    /\ runner.kwargs.use_cached_retrieved_results
    /\ ~runner.kwargs.use_hosted_retriever

SupportedTypes ==
    {"qa", "conv_qa", "qa_unanswerable", "conv_qa_unanswerable",
     "starcoder_chat", "faithdial"}

\* C4: with a dataset_type outside the six supported values the process
\* ends in a fatal error at parsing: no collaborator is called, nothing is
\* logged, no directory is created, no runner is built or invoked.
C4_UnsupportedTypeFailsBeforeLoading ==
    (argv # None /\ argv.dataset_type \notin SupportedTypes) =>
        /\ pc \in {"parse_args", "usage_error"}
        /\ events = <<>>
        /\ fs = fs0
        /\ args = None
        /\ dataset = Unset /\ document_collection = Unset /\ model = Unset
        /\ index = Unset /\ retriever = Unset
        /\ runner_cls = Unset /\ runner = Unset

\* C4 witness: the parser has rejected an unsupported dataset_type.
C4_Witness ==
    /\ pc = "usage_error"
    /\ argv.dataset_type \notin SupportedTypes
    /\ events = <<>>

ExpectedRunnerCls(t) ==
    CASE t \in {"qa", "qa_unanswerable"} -> "ResponseRunner"
      [] t \in {"conv_qa", "conv_qa_unanswerable"} -> "ConvQAResponseRunner"
      [] t = "starcoder_chat" -> "StarChatResponseRunner"
      [] t = "faithdial" -> "FaithDialResponseRunner"

DispatchNeverAsserts == failedAt \notin {"assert_templates", "assert_runner_cls"}

\* C5 as stated: for each of the six values the dispatch does not fail, the
\* runner is built with the one class of that value, and its prompt
\* template is not None.
C5_AsStated ==
    /\ DispatchNeverAsserts
    /\ Constructed =>
        /\ runner.cls = ExpectedRunnerCls(args.dataset_type)
        /\ runner.kwargs.prompt_template # None

\* C5, amended: for each of the six values the dispatch does not fail and
\* the runner is built with the one class of that value; the prompt
\* template is defined for every value except faithdial, whose runner gets
\* prompt template None and a history template.
C5_DispatchTotalPromptExceptFaithdial ==
    /\ DispatchNeverAsserts
    /\ Constructed =>
        /\ runner.cls = ExpectedRunnerCls(args.dataset_type)
        /\ args.dataset_type # "faithdial" => runner.kwargs.prompt_template # None
        /\ args.dataset_type = "faithdial" =>
            /\ runner.kwargs.prompt_template = None
            /\ runner.kwargs.history_template = [cls |-> "HistoryTemplate"]

\* C5 witness: a FaithDialResponseRunner built with prompt template None.
C5_Witness ==
    /\ Constructed
    /\ args.dataset_type = "faithdial"
    /\ runner.cls = "FaithDialResponseRunner"
    /\ runner.kwargs.prompt_template = None

\* C6: two processes whose command lines agree on dataset_name,
\* dataset_split, document_collection_name, model_name, retriever_name,
\* top_p, temperature, seed and persistent_dir get the same experiment
\* identifier and the same output path, whatever their other options are.
C6_SameKeySameIdAndPath ==
    (prev # None /\ output_file # Unset /\ prev.key = Key(args)) =>
        /\ prev.id = experiment_id
        /\ prev.path = output_file

\* C6 witness: a second process with the key of the previous one and a
\* different use_hosted_retriever, whose model name holds a "/", has
\* computed its identifier and its output path.
C6_Witness ==
    /\ prev # None
    /\ output_file # Unset
    /\ prev.key = Key(args)
    /\ prev.use_hosted_retriever # args.use_hosted_retriever
    /\ args.model_name = <<"f", "b", "/", "o", "p", "t">>
    /\ experiment_id.model_name = <<"f", "b", "_", "o", "p", "t">>

RunnerInvoked == Has(events, "runner_call")

\* C7: whenever the runner is about to be invoked or has been invoked, the
\* directory persistent_dir/results/dataset_name/response exists and is the
\* directory of the output_path the runner was given; and no process fails
\* in os.makedirs, the directory being new or already there.
C7_OutputDirExistsAtInvocation ==
    /\ (pc = "invoke_runner" \/ RunnerInvoked) =>
        /\ <<args.persistent_dir, "results", args.dataset_name, "response">> \in fs
        /\ Dirname(runner.kwargs.output_path)
             = <<args.persistent_dir, "results", args.dataset_name, "response">>
    /\ failedAt # "makedirs"

\* C7 witness: a second process with the configuration key of the first
\* invokes its runner although the directory existed when it started.
C7_Witness ==
    /\ RunnerInvoked
    /\ run = 2
    /\ prev # None
    /\ prev.key = Key(args)
    /\ <<args.persistent_dir, "results", args.dataset_name, "response">> \in fs0

CallOrder ==
    <<"load_dataset", "load_collection", "load_model", "load_index",
      "load_retriever", "makedirs", "runner_init", "runner_call">>
Rank(name) == CHOOSE k \in DOMAIN CallOrder : CallOrder[k] = name
IsCall(e) == \E k \in DOMAIN CallOrder : CallOrder[k] = e.name
Calls == SelectSeq(events, IsCall)

\* The statements of one process.
Step ==
    \/ ParseArgs \/ LogArgs \/ GenerateId \/ LoadDataset \/ OutputFile
    \/ LoadCollection \/ LoadModel \/ LoadIndex \/ LoadRetriever
    \/ BuildTemplates \/ MakeDirs \/ SelectRunner \/ ConstructRunner
    \/ InvokeRunner

\* C8: in every process the collaborators are called in the order
\* load_dataset, load_collection, load_model, load_index, load_retriever,
\* makedirs, runner construction, runner invocation, each at most once
\* (nothing is repeated or retried); the runner is invoked only after the
\* dataset, the collection and the model were loaded; a process that has
\* failed calls nothing more, one that has not ended can take its next
\* statement, and one that completes has built and invoked exactly one
\* runner.
C8_OneRunInOrder ==
    LET c == Names(Calls) IN
    /\ \A i \in 1..(Len(c) - 1) : Rank(c[i]) < Rank(c[i + 1])
    /\ RunnerInvoked =>
        /\ Has(events, "load_dataset") /\ dataset = [cls |-> "Dataset"]
        /\ Has(events, "load_collection") /\ document_collection = [cls |-> "Collection"]
        /\ Has(events, "load_model") /\ model = [cls |-> "Model"]
        /\ Has(events, "runner_init")
        /\ index # Unset /\ retriever # Unset
    /\ pc = "done" => Count(events, "runner_init") = 1 /\ Count(events, "runner_call") = 1
    /\ pc = "failed" => (c # <<>> /\ c[Len(c)] = failedAt /\ ~ENABLED Step)
    /\ pc \notin {"done", "failed", "usage_error", "exited"} => ENABLED Step

\* C8 witness: a completed process that loaded the index and the retriever.
C8_Witness ==
    /\ pc = "done"
    /\ Names(Calls) = CallOrder

LogsOfIdentifiers == {"log_args", "log_experiment_id", "log_output_file"}
Loads == {"load_dataset", "load_collection", "load_model", "load_index", "load_retriever"}

\* C9 as stated: the command-line arguments, the experiment ID and the
\* output response file path are all logged before the first loading call.
C9_AsStated ==
    \A i, j \in DOMAIN events :
        (events[i].name \in LogsOfIdentifiers /\ events[j].name \in Loads) => i < j

\* C9, amended: the command-line arguments and the experiment ID are logged
\* before the first loading call; the output response file path is logged
\* after load_dataset has returned and before every other loading call.
C9_ArgsAndIdLoggedBeforeLoading ==
    LET n == Names(events)
        loads == {j \in DOMAIN n : n[j] \in Loads}
    IN
    /\ \A j \in loads :
        /\ \E i \in 1..(j - 1) : n[i] = "log_args"
        /\ \E i \in 1..(j - 1) : n[i] = "log_experiment_id"
        /\ \A i \in j..Len(n) : n[i] \notin {"log_args", "log_experiment_id"}
        /\ n[j] = "load_dataset" => \A i \in 1..j : n[i] # "log_output_file"
        /\ n[j] # "load_dataset" =>
            /\ \E i \in 1..(j - 1) : n[i] = "log_output_file"
            /\ \A i \in j..Len(n) : n[i] # "log_output_file"
    /\ \A i \in DOMAIN n : n[i] = "log_output_file" =>
        \E j \in 1..(i - 1) : n[j] = "load_dataset"

\* C9 witness: the output path was logged after load_dataset, and the
\* collection was loaded after that.
C9_Witness ==
    /\ Has(events, "log_output_file")
    /\ Has(events, "load_collection")
    /\ First(events, "load_dataset") < First(events, "log_output_file")
    /\ First(events, "log_experiment_id") < First(events, "load_dataset")

\* C10: a ConvQAResponseRunner is built exactly for conv_qa and
\* conv_qa_unanswerable, with a history template and a prompt template over
\* [query, retrieved_passages, history]; a ResponseRunner is built exactly
\* for qa and qa_unanswerable, with history template None and a prompt
\* template over [query, retrieved_passages]; with dataset_type qa and
\* neither index_name nor retriever_cached_results_fp, it gets retriever None.
C10_TemplatesAgreeWithRunner ==
    Constructed =>
        /\ runner.cls = "ConvQAResponseRunner"
             <=> args.dataset_type \in {"conv_qa", "conv_qa_unanswerable"}
        /\ runner.cls = "ResponseRunner"
             <=> args.dataset_type \in {"qa", "qa_unanswerable"}
        /\ runner.cls = "ConvQAResponseRunner" =>
            /\ runner.kwargs.history_template = [cls |-> "HistoryTemplate"]
            /\ runner.kwargs.prompt_template.cls = "PromptTemplate"
            /\ runner.kwargs.prompt_template.variables
                 = <<"query", "retrieved_passages", "history">>
        /\ runner.cls = "ResponseRunner" =>
            /\ runner.kwargs.history_template = None
            /\ runner.kwargs.prompt_template.cls = "PromptTemplate"
            /\ runner.kwargs.prompt_template.variables = <<"query", "retrieved_passages">>
        /\ (args.dataset_type = "qa" /\ NoOpt(args)) =>
            /\ runner.cls = "ResponseRunner"
            /\ runner.kwargs.retriever = None

\* C10 witness: a ConvQAResponseRunner built for conv_qa_unanswerable.
C10_Witness ==
    /\ Constructed
    /\ args.dataset_type = "conv_qa_unanswerable"
    /\ runner.cls = "ConvQAResponseRunner"
    /\ runner.kwargs.history_template # None

====
